---- MODULE Spec2Model ----
(***************************************************************************)
(* Parking gate controller (src/main.c++): setup(), loop(), isAuthorized() *)
(* and readDistanceCM(), modelled as a state machine.  One action per      *)
(* statement group of loop(); the blocking delay() calls are positions of  *)
(* the program counter at which only the environment (cards entering or    *)
(* leaving the reader field) can move.                                     *)
(*                                                                         *)
(* Distances are kept in thousandths of a centimetre, so that              *)
(* duration * 0.034 / 2.0 is the exact integer duration * 34 \div 2.       *)
(***************************************************************************)
EXTENDS Integers, Sequences, FiniteSets

VARIABLES
    pc,             \* position of the sketch: setup(), a step of loop(), or halted
    gateOpen,       \* bool gateOpen (line 73)
    servoAngle,     \* last angle written to gateServo; -1 before the first write
    availableSpots, \* int availableSpots (line 72)
    fsr1, fsr2, fsr3,                   \* analogRead results of this cycle
    spot1Free, spot2Free, spot3Free,    \* per-spot flags of this cycle
    uid,            \* rfid.uid: the reader's UID buffer and the size of the last UID read
    card,           \* the tag in the reader's field, NoCard when none
    cardState,      \* ISO 14443 state of that tag: "idle", "active" or "halt"
    echo,           \* echo pulse seen by the last pulseIn of this cycle (NoEcho: it timed out)
    distance,       \* float distance of this cycle, in 1/1000 cm
    startOpen,      \* gateOpen at the entry of the current loop() call
    scanned,        \* the condition of line 126 held in this cycle
    authResult,     \* outcome of isAuthorized in this cycle: "none", "granted", "denied"
    sampled,        \* readDistanceCM() was called in this cycle
    openCmds,       \* gateServo.write(0) calls in this cycle
    closeCmds,      \* gateServo.write(90) calls in this cycle
    waited,         \* milliseconds spent in the settle delays of this cycle
    sinceOpen,      \* milliseconds of delay() since the last gateServo.write(0), -1 if none
    trace           \* events handled since loop() was last entered with the gate Closed,
                    \* while they follow Script

vars == << pc, gateOpen, servoAngle, availableSpots, fsr1, fsr2, fsr3,
           spot1Free, spot2Free, spot3Free, uid, card, cardState, echo, distance,
           startOpen, scanned, authResult, sampled, openCmds, closeCmds, waited,
           sinceOpen, trace >>

gateVars == << gateOpen, servoAngle, openCmds, closeCmds >>
spotVars == << availableSpots, fsr1, fsr2, fsr3, spot1Free, spot2Free, spot3Free >>
rfidVars == << uid, scanned, authResult >>
fieldVars == << card, cardState >>
rangeVars == << echo, distance, sampled >>
timeVars == << waited, sinceOpen >>

----------------------------------------------------------------------------
(* Program constants *)

totalSpots == 3
FSR_THRESHOLD == 500
FSR2_THRESHOLD == 270
FSR3_THRESHOLD == 400
CLOSED_ANGLE == 90
OPEN_ANGLE == 0
OPEN_SETTLE_MS == 2000
CLOSE_SETTLE_MS == 2500
CYCLE_DELAY_MS == 500
CLOSE_THRESHOLD == 11000
UID_LEN == 4
UID_BUF_LEN == 10
authorizedUID == << 3, 12, 73, 22 >>

(* Bounds *)

MaxElapsed == 5000

----------------------------------------------------------------------------
(* Inputs *)

NoCard == << >>
NoEcho == 0 - 1

\* Tags that can be presented: the authorized one, single-byte perturbations
\* of it, and 7- and 10-byte UIDs that do or do not start with it.
Cards ==
    { authorizedUID,
      << 4, 12, 73, 22 >>,
      << 3, 12, 73, 23 >>,
      << 3, 12, 73, 22, 128, 1, 2 >>,
      << 4, 12, 73, 22, 128, 1, 2 >>,
      << 3, 12, 73, 22, 128, 1, 2, 5, 6, 7 >> }

\* Echo pulse widths in microseconds: about 8, 10, 11 (just below and just
\* above the threshold), 20 and 50 cm.
Echoes == { 471, 588, 647, 648, 1176, 2941 }

FsrReadings(threshold) == { threshold - 1, threshold }

Min(a, b) == IF a < b THEN a ELSE b

----------------------------------------------------------------------------
(* Pure functions *)

\* Variant of the loop that stops one byte early (i < 3).
RECURSIVE isAuthorizedFromShort(_, _)
isAuthorizedFromShort(uidByte, i) ==
    IF i < UID_LEN - 1
    THEN IF uidByte[i + 1] # authorizedUID[i + 1]
         THEN FALSE
         ELSE isAuthorizedFromShort(uidByte, i + 1)
    ELSE TRUE

\* isAuthorized(byte *uid): the loop over i = 0..3, entered at index i.
RECURSIVE isAuthorizedFrom(_, _)
isAuthorizedFrom(uidByte, i) ==
    IF i < UID_LEN
    THEN IF uidByte[i + 1] # authorizedUID[i + 1]
         THEN FALSE
         ELSE isAuthorizedFrom(uidByte, i + 1)
    ELSE TRUE

\* Variant of isAuthorized whose loop starts at i = 1.
isAuthorizedSkipFirst(uidByte) == isAuthorizedFrom(uidByte, 1)

isAuthorized(uidByte) == isAuthorizedFrom(uidByte, 0)

\* pulseIn(ECHO_PIN, HIGH): the pulse width, 0 when no pulse arrived in time.
pulseIn(e) == IF e = NoEcho THEN 0 ELSE e

\* readDistanceCM(): duration * 0.034f / 2.0f, in 1/1000 cm.
readDistanceCM(e) == (pulseIn(e) * 34) \div 2

\* Variant with an 8.0 cm threshold.
closeConditionTight(d) == d <= CLOSE_THRESHOLD - 3000

\* Variant with the 12.0 cm threshold.
closeConditionVariant(d) == d <= CLOSE_THRESHOLD + 1000

\* distance <= 11.0
closeCondition(d) == d <= CLOSE_THRESHOLD

\* PICC_ReadCardSerial storing a UID: the first Len(c) bytes of the buffer.
StoreUid(buf, c) ==
    [ uidByte |-> [ i \in 1..UID_BUF_LEN |-> IF i <= Len(c) THEN c[i] ELSE buf.uidByte[i] ],
      size |-> Len(c) ]

Elapse(t, ms) == IF t < 0 THEN t ELSE Min(t + ms, MaxElapsed)

\* The input sequence that is followed end to end: the authorized tag, then
\* echoes of about 50 cm and about 8 cm.
Script ==
    << [ ev |-> "scan", uid |-> authorizedUID ],
       [ ev |-> "distance", echo |-> 2941 ],
       [ ev |-> "distance", echo |-> 471 ] >>

\* The trace of a run whose inputs left the script.
OffScript == << [ ev |-> "off" ] >>

\* The input of a handled event is the given step of the script.
Follows(entry, step) ==
    /\ entry.ev = step.ev
    /\ IF step.ev = "scan" THEN entry.uid = step.uid ELSE entry.echo = step.echo

\* The trace with one more handled event, as long as the inputs follow the
\* script; any other input, or one past its end, turns the trace off.
Log(tr, entry) ==
    IF tr # OffScript /\ Len(tr) < Len(Script) /\ Follows(entry, Script[Len(tr) + 1])
    THEN Append(tr, entry)
    ELSE OffScript

\* A credential scan and what the sketch did with it.
ScanEvent(u, open, cmd) ==
    [ ev |-> "scan", uid |-> SubSeq(u.uidByte, 1, u.size), open |-> open, cmd |-> cmd ]

\* A range sample and what the sketch did with it.
DistanceEvent(e, open, cmd) ==
    [ ev |-> "distance", echo |-> e, open |-> open, cmd |-> cmd ]

----------------------------------------------------------------------------
(* Initial state: the globals as constructed, before setup() *)

Init ==
    /\ pc = "setup"
    /\ gateOpen = FALSE
    /\ servoAngle = 0 - 1
    /\ availableSpots = totalSpots
    /\ fsr1 = FSR_THRESHOLD /\ fsr2 = FSR2_THRESHOLD /\ fsr3 = FSR3_THRESHOLD
    /\ spot1Free = FALSE /\ spot2Free = FALSE /\ spot3Free = FALSE
    /\ uid = [ uidByte |-> [ i \in 1..UID_BUF_LEN |-> 0 ], size |-> 0 ]
    /\ card = NoCard
    /\ cardState = "idle"
    /\ echo = NoEcho
    /\ distance = 0
    /\ startOpen = FALSE
    /\ scanned = FALSE
    /\ authResult = "none"
    /\ sampled = FALSE
    /\ openCmds = 0
    /\ closeCmds = 0
    /\ waited = 0
    /\ sinceOpen = 0 - 1
    /\ trace = << >>

----------------------------------------------------------------------------
(* Environment: tags entering and leaving the reader's field *)

PresentCard ==
    /\ card = NoCard
    /\ \E c \in Cards : card' = c
    /\ cardState' = "idle"
    /\ UNCHANGED << pc, gateVars, spotVars, rfidVars, rangeVars, timeVars, startOpen, trace >>

RemoveCard ==
    /\ card # NoCard
    /\ card' = NoCard
    /\ cardState' = "idle"
    /\ UNCHANGED << pc, gateVars, spotVars, rfidVars, rangeVars, timeVars, startOpen, trace >>

----------------------------------------------------------------------------
(* setup() *)

\* Lines 76-94: Blynk, RFID, servo attached and commanded closed, pins.
SetupServo ==
    /\ pc = "setup"
    /\ servoAngle' = CLOSED_ANGLE
    /\ pc' = "oled"
    /\ UNCHANGED << gateOpen, openCmds, closeCmds, spotVars, rfidVars, fieldVars,
                    rangeVars, timeVars, startOpen, trace >>

\* Variant whose failure branch reports the failure and then returns.
SetupDisplayFallThrough ==
    /\ pc \in { "oled", "halted" }
    /\ \E ok \in BOOLEAN :
         pc' = IF pc = "oled" /\ ~ok THEN "halted" ELSE "occupancy"
    /\ UNCHANGED << gateVars, spotVars, rfidVars, fieldVars, rangeVars, timeVars, startOpen, trace >>

\* Lines 97-103: display.begin; on failure while(true), else splash and return.
SetupDisplay ==
    /\ pc = "oled"
    /\ \E ok \in BOOLEAN : pc' = IF ok THEN "occupancy" ELSE "halted"
    /\ UNCHANGED << gateVars, spotVars, rfidVars, fieldVars, rangeVars, timeVars, startOpen, trace >>

----------------------------------------------------------------------------
(* loop() *)

\* Variant without the reset of line 118: the count accumulates over cycles.
OccupancyNoReset ==
    /\ pc = "occupancy"
    /\ \E r1 \in FsrReadings(FSR_THRESHOLD), r2 \in FsrReadings(FSR2_THRESHOLD),
          r3 \in FsrReadings(FSR3_THRESHOLD) :
         /\ fsr1' = r1 /\ fsr2' = r2 /\ fsr3' = r3
         /\ spot1Free' = (r1 < FSR_THRESHOLD)
         /\ spot2Free' = (r2 < FSR2_THRESHOLD)
         /\ spot3Free' = (r3 < FSR3_THRESHOLD)
         /\ availableSpots' = availableSpots + (IF r1 < FSR_THRESHOLD THEN 1 ELSE 0)
                                + (IF r2 < FSR2_THRESHOLD THEN 1 ELSE 0)
                                + (IF r3 < FSR3_THRESHOLD THEN 1 ELSE 0)
    /\ startOpen' = gateOpen
    /\ scanned' = FALSE
    /\ authResult' = "none"
    /\ sampled' = FALSE
    /\ echo' = NoEcho
    /\ distance' = 0
    /\ openCmds' = 0
    /\ closeCmds' = 0
    /\ waited' = 0
    /\ sinceOpen' = IF gateOpen THEN sinceOpen ELSE 0 - 1
    /\ trace' = IF gateOpen THEN trace ELSE << >>
    /\ pc' = "rfid"
    /\ UNCHANGED << gateOpen, servoAngle, uid, fieldVars >>

\* Lines 107-123: entry of loop(), FSR reads, flags and count.
Occupancy ==
    /\ pc = "occupancy"
    /\ \E r1 \in FsrReadings(FSR_THRESHOLD), r2 \in FsrReadings(FSR2_THRESHOLD),
          r3 \in FsrReadings(FSR3_THRESHOLD) :
         /\ fsr1' = r1 /\ fsr2' = r2 /\ fsr3' = r3
         /\ spot1Free' = (r1 < FSR_THRESHOLD)
         /\ spot2Free' = (r2 < FSR2_THRESHOLD)
         /\ spot3Free' = (r3 < FSR3_THRESHOLD)
         /\ availableSpots' = 0 + (IF r1 < FSR_THRESHOLD THEN 1 ELSE 0)
                                + (IF r2 < FSR2_THRESHOLD THEN 1 ELSE 0)
                                + (IF r3 < FSR3_THRESHOLD THEN 1 ELSE 0)
    /\ startOpen' = gateOpen
    /\ scanned' = FALSE
    /\ authResult' = "none"
    /\ sampled' = FALSE
    /\ echo' = NoEcho
    /\ distance' = 0
    /\ openCmds' = 0
    /\ closeCmds' = 0
    /\ waited' = 0
    /\ sinceOpen' = IF gateOpen THEN sinceOpen ELSE 0 - 1
    /\ trace' = IF gateOpen THEN trace ELSE << >>
    /\ pc' = "rfid"
    /\ UNCHANGED << gateOpen, servoAngle, uid, fieldVars >>

\* Line 126: PICC_IsNewCardPresent() && PICC_ReadCardSerial().  A tag is new
\* when it is in the field and not halted; the read of its serial may fail.
PollCard ==
    /\ pc = "rfid"
    /\ \/ /\ card # NoCard
          /\ cardState # "halt"
          /\ uid' = StoreUid(uid, card)
          /\ cardState' = "active"
          /\ scanned' = TRUE
          /\ pc' = "auth"
          /\ UNCHANGED card
       \/ /\ pc' = "autoclose"
          /\ UNCHANGED << uid, scanned, fieldVars >>
    /\ UNCHANGED << authResult, gateVars, spotVars, rangeVars, timeVars, startOpen, trace >>

\* Variant of the grant branch that commands the servo but leaves gateOpen.
AuthorizeForget ==
    /\ pc = "auth"
    /\ IF isAuthorized(uid.uidByte)
       THEN /\ authResult' = "granted"
            /\ servoAngle' = OPEN_ANGLE
            /\ openCmds' = openCmds + 1
            /\ sinceOpen' = 0
            /\ trace' = Log(trace, ScanEvent(uid, TRUE, "open"))
            /\ pc' = "openSettle"
            /\ UNCHANGED gateOpen
       ELSE /\ authResult' = "denied"
            /\ trace' = Log(trace, ScanEvent(uid, gateOpen, "none"))
            /\ pc' = "haltA"
            /\ UNCHANGED << gateOpen, servoAngle, openCmds, sinceOpen >>
    /\ UNCHANGED << closeCmds, spotVars, uid, scanned, fieldVars, rangeVars, waited,
                    startOpen >>

\* Variant that grants only while a spot is free.
AuthorizeIfSpots ==
    /\ pc = "auth"
    /\ IF isAuthorized(uid.uidByte) /\ availableSpots > 0
       THEN /\ authResult' = "granted"
            /\ servoAngle' = OPEN_ANGLE
            /\ openCmds' = openCmds + 1
            /\ gateOpen' = TRUE
            /\ sinceOpen' = 0
            /\ trace' = Log(trace, ScanEvent(uid, TRUE, "open"))
            /\ pc' = "openSettle"
       ELSE /\ authResult' = "denied"
            /\ trace' = Log(trace, ScanEvent(uid, gateOpen, "none"))
            /\ pc' = "haltA"
            /\ UNCHANGED << gateOpen, servoAngle, openCmds, sinceOpen >>
    /\ UNCHANGED << closeCmds, spotVars, uid, scanned, fieldVars, rangeVars, waited,
                    startOpen >>

\* Variant that opens the gate for every tag that was read.
AuthorizeAnyCard ==
    /\ pc = "auth"
    /\ authResult' = (IF isAuthorized(uid.uidByte) THEN "granted" ELSE "denied")
    /\ servoAngle' = OPEN_ANGLE
    /\ openCmds' = openCmds + 1
    /\ gateOpen' = TRUE
    /\ sinceOpen' = 0
    /\ trace' = Log(trace, ScanEvent(uid, TRUE, "open"))
    /\ pc' = "openSettle"
    /\ UNCHANGED << closeCmds, spotVars, uid, scanned, fieldVars, rangeVars, waited,
                    startOpen >>

\* Lines 127-134: the authorization decision; on a grant the servo is
\* commanded open and gateOpen set, then delay(2000) is entered.
Authorize ==
    /\ pc = "auth"
    /\ IF isAuthorized(uid.uidByte)
       THEN /\ authResult' = "granted"
            /\ servoAngle' = OPEN_ANGLE
            /\ openCmds' = openCmds + 1
            /\ gateOpen' = TRUE
            /\ sinceOpen' = 0
            /\ trace' = Log(trace, ScanEvent(uid, TRUE, "open"))
            /\ pc' = "openSettle"
       ELSE /\ authResult' = "denied"
            /\ trace' = Log(trace, ScanEvent(uid, gateOpen, "none"))
            /\ pc' = "haltA"
            /\ UNCHANGED << gateOpen, servoAngle, openCmds, sinceOpen >>
    /\ UNCHANGED << closeCmds, spotVars, uid, scanned, fieldVars, rangeVars, waited,
                    startOpen >>

\* Variant without the delay(2000).
OpenSettleSkipped ==
    /\ pc = "openSettle"
    /\ pc' = "haltA"
    /\ UNCHANGED << gateVars, spotVars, rfidVars, fieldVars, rangeVars, timeVars, startOpen, trace >>

\* Line 131: delay(2000) returns.
OpenSettle ==
    /\ pc = "openSettle"
    /\ waited' = waited + OPEN_SETTLE_MS
    /\ sinceOpen' = Elapse(sinceOpen, OPEN_SETTLE_MS)
    /\ pc' = "haltA"
    /\ UNCHANGED << gateVars, spotVars, rfidVars, fieldVars, rangeVars, startOpen, trace >>

\* Line 135: PICC_HaltA() halts the tag that was selected, if still there.
HaltA ==
    /\ pc = "haltA"
    /\ cardState' = IF cardState = "active" THEN "halt" ELSE cardState
    /\ pc' = "autoclose"
    /\ UNCHANGED << card, gateVars, spotVars, rfidVars, rangeVars, timeVars, startOpen, trace >>

\* Variant that clears gateOpen as soon as the close condition holds.
AutoCloseEarly ==
    /\ pc = "autoclose"
    /\ IF gateOpen
       THEN \E e \in Echoes \cup { NoEcho } :
              /\ echo' = e
              /\ distance' = readDistanceCM(e)
              /\ sampled' = TRUE
              /\ trace' = IF closeCondition(readDistanceCM(e))
                           THEN trace
                           ELSE Log(trace, DistanceEvent(e, TRUE, "none"))
              /\ gateOpen' = ~closeCondition(readDistanceCM(e))
              /\ pc' = IF closeCondition(readDistanceCM(e)) THEN "closeSettle" ELSE "display"
       ELSE /\ pc' = "display"
            /\ UNCHANGED << gateOpen, rangeVars, trace >>
    /\ UNCHANGED << servoAngle, openCmds, closeCmds, spotVars, rfidVars, fieldVars,
                    timeVars, startOpen >>

\* Variant without the if (gateOpen) guard: the range is sampled every cycle.
AutoCloseAlways ==
    /\ pc = "autoclose"
    /\ \E e \in Echoes \cup { NoEcho } :
         /\ echo' = e
         /\ distance' = readDistanceCM(e)
         /\ sampled' = TRUE
         /\ trace' = IF closeCondition(readDistanceCM(e))
                      THEN trace
                      ELSE Log(trace, DistanceEvent(e, TRUE, "none"))
         /\ pc' = IF closeCondition(readDistanceCM(e)) THEN "closeSettle" ELSE "display"
    /\ UNCHANGED << gateVars, spotVars, rfidVars, fieldVars, timeVars, startOpen >>

\* Variant in which the range step is the else branch of a grant: a cycle
\* that granted a scan does not sample the range.
AutoCloseElse ==
    /\ pc = "autoclose"
    /\ IF gateOpen /\ authResult # "granted"
       THEN \E e \in Echoes \cup { NoEcho } :
              /\ echo' = e
              /\ distance' = readDistanceCM(e)
              /\ sampled' = TRUE
              /\ trace' = IF closeCondition(readDistanceCM(e))
                           THEN trace
                           ELSE Log(trace, DistanceEvent(e, TRUE, "none"))
              /\ pc' = IF closeCondition(readDistanceCM(e)) THEN "closeSettle" ELSE "display"
       ELSE /\ pc' = "display"
            /\ UNCHANGED << rangeVars, trace >>
    /\ UNCHANGED << gateVars, spotVars, rfidVars, fieldVars, timeVars, startOpen >>

\* Lines 139-145: if the gate is open, sample the range and decide to close.
AutoClose ==
    /\ pc = "autoclose"
    /\ IF gateOpen
       THEN \E e \in Echoes \cup { NoEcho } :
              /\ echo' = e
              /\ distance' = readDistanceCM(e)
              /\ sampled' = TRUE
              /\ trace' = IF closeCondition(readDistanceCM(e))
                           THEN trace
                           ELSE Log(trace, DistanceEvent(e, TRUE, "none"))
              /\ pc' = IF closeCondition(readDistanceCM(e)) THEN "closeSettle" ELSE "display"
       ELSE /\ pc' = "display"
            /\ UNCHANGED << rangeVars, trace >>
    /\ UNCHANGED << gateVars, spotVars, rfidVars, fieldVars, timeVars, startOpen >>

\* Variant that closes without the delay(2500).
CloseSettleNoDelay ==
    /\ pc = "closeSettle"
    /\ servoAngle' = CLOSED_ANGLE
    /\ closeCmds' = closeCmds + 1
    /\ gateOpen' = FALSE
    /\ trace' = Log(trace, DistanceEvent(echo, FALSE, "close"))
    /\ pc' = "display"
    /\ UNCHANGED << openCmds, spotVars, rfidVars, fieldVars, rangeVars, timeVars, startOpen >>

\* Variant that clears gateOpen without commanding the servo.
CloseSettleNoWrite ==
    /\ pc = "closeSettle"
    /\ waited' = waited + CLOSE_SETTLE_MS
    /\ sinceOpen' = Elapse(sinceOpen, CLOSE_SETTLE_MS)
    /\ closeCmds' = closeCmds + 1
    /\ gateOpen' = FALSE
    /\ trace' = Log(trace, DistanceEvent(echo, FALSE, "close"))
    /\ pc' = "display"
    /\ UNCHANGED << servoAngle, openCmds, spotVars, rfidVars, fieldVars, rangeVars, startOpen >>

\* Lines 146-148: delay(2500) returns, the servo is commanded closed.
CloseSettle ==
    /\ pc = "closeSettle"
    /\ waited' = waited + CLOSE_SETTLE_MS
    /\ sinceOpen' = Elapse(sinceOpen, CLOSE_SETTLE_MS)
    /\ servoAngle' = CLOSED_ANGLE
    /\ closeCmds' = closeCmds + 1
    /\ gateOpen' = FALSE
    /\ trace' = Log(trace, DistanceEvent(echo, FALSE, "close"))
    /\ pc' = "display"
    /\ UNCHANGED << openCmds, spotVars, rfidVars, fieldVars, rangeVars, startOpen >>

\* Lines 153-177: the display is redrawn and the count is published.
Display ==
    /\ pc = "display"
    /\ pc' = "cycleDelay"
    /\ UNCHANGED << gateVars, spotVars, rfidVars, fieldVars, rangeVars, timeVars, startOpen, trace >>

\* Line 179: delay(500) returns and loop() is called again.
CycleDelay ==
    /\ pc = "cycleDelay"
    /\ sinceOpen' = Elapse(sinceOpen, CYCLE_DELAY_MS)
    /\ pc' = "occupancy"
    /\ UNCHANGED << gateVars, spotVars, rfidVars, fieldVars, rangeVars, waited, startOpen, trace >>

----------------------------------------------------------------------------

Next ==
    \/ PresentCard
    \/ RemoveCard
    \/ SetupServo
    \/ SetupDisplay
    \/ Occupancy
    \/ PollCard
    \/ Authorize
    \/ OpenSettle
    \/ HaltA
    \/ AutoClose
    \/ CloseSettle
    \/ Display
    \/ CycleDelay

Spec == Init /\ [][Next]_vars

TypeOK ==
    /\ pc \in { "setup", "oled", "halted", "occupancy", "rfid", "auth", "openSettle",
                "haltA", "autoclose", "closeSettle", "display", "cycleDelay" }
    /\ gateOpen \in BOOLEAN
    /\ servoAngle \in { 0 - 1, OPEN_ANGLE, CLOSED_ANGLE }
    /\ availableSpots \in 0..totalSpots
    /\ card \in Cards \cup { NoCard }
    /\ cardState \in { "idle", "active", "halt" }
    /\ uid.size \in { 0, 4, 7, 10 }
    /\ echo \in Echoes \cup { NoEcho }
    /\ authResult \in { "none", "granted", "denied" }
    /\ openCmds \in 0..1
    /\ closeCmds \in 0..1
    /\ sinceOpen \in (0 - 1)..MaxElapsed
    /\ Len(trace) <= Len(Script)

\* The steps of setup() and loop(); the sketch is the only thread and always
\* runs on.
Program ==
    \/ SetupServo \/ SetupDisplay \/ Occupancy \/ PollCard \/ Authorize \/ OpenSettle
    \/ HaltA \/ AutoClose \/ CloseSettle \/ Display \/ CycleDelay

FairSpec == Spec /\ WF_vars(Program)

----------------------------------------------------------------------------
(* isAuthorized on its own: every 4-byte credential that differs from the *)
(* authorized one in at most one byte, and every arrangement of the        *)
(* authorized bytes, with the gate in either state.                        *)

Bytes == 0..255

AuthInputs ==
    { [ authorizedUID EXCEPT ![i] = b ] : i \in 1..UID_LEN, b \in Bytes }
        \cup [ 1..UID_LEN -> { authorizedUID[i] : i \in 1..UID_LEN } ]

InitAuth ==
    /\ pc = "auth"
    /\ gateOpen \in BOOLEAN
    /\ servoAngle = (IF gateOpen THEN OPEN_ANGLE ELSE CLOSED_ANGLE)
    /\ availableSpots = totalSpots
    /\ fsr1 = FSR_THRESHOLD /\ fsr2 = FSR2_THRESHOLD /\ fsr3 = FSR3_THRESHOLD
    /\ spot1Free = FALSE /\ spot2Free = FALSE /\ spot3Free = FALSE
    /\ \E c \in AuthInputs :
         /\ uid = [ uidByte |-> [ i \in 1..UID_BUF_LEN |-> IF i <= UID_LEN THEN c[i] ELSE 0 ],
                    size |-> UID_LEN ]
         /\ card = c
    /\ cardState = "active"
    /\ echo = NoEcho
    /\ distance = 0
    /\ startOpen = gateOpen
    /\ scanned = TRUE
    /\ authResult = "none"
    /\ sampled = FALSE
    /\ openCmds = 0
    /\ closeCmds = 0
    /\ waited = 0
    /\ sinceOpen = (IF gateOpen THEN MaxElapsed ELSE 0 - 1)
    /\ trace = << >>

\* A call of isAuthorized(rfid.uid.uidByte), its result recorded.
ApplyIsAuthorized ==
    /\ pc = "auth"
    /\ authResult = "none"
    /\ authResult' = IF isAuthorized(uid.uidByte) THEN "granted" ELSE "denied"
    /\ UNCHANGED << pc, gateVars, spotVars, uid, scanned, fieldVars, rangeVars, timeVars,
                    startOpen, trace >>

NextAuth == ApplyIsAuthorized

SpecAuth == InitAuth /\ [][NextAuth]_vars

----------------------------------------------------------------------------
(* Properties *)

\* The first four bytes of the UID buffer are the authorized identifier.
PrefixMatches == \A i \in 1..UID_LEN : uid.uidByte[i] = authorizedUID[i]

\* The last range sample was a real echo, and its distance in 1/1000 cm.
ValidSample == sampled /\ echo # NoEcho
SampleNear == echo * 34 <= 2 * CLOSE_THRESHOLD

\* C1: with the gate Open, a range read that times out ("no echo") never
\* leads to a close: after such a sample the gate is still Open, the close
\* settle wait is not entered and no close command is issued in that cycle.
C1_NoEchoNeverCloses ==
    (sampled /\ echo = NoEcho) => (gateOpen /\ pc # "closeSettle" /\ closeCmds = 0)

\* C2: when a cycle begins with the gate Closed and its credential poll
\* yields the authorized identifier, the gate becomes Open and exactly one
\* open command is issued in that cycle.
C2_AuthorizedScanOpens ==
    (~startOpen /\ scanned /\ uid.size = UID_LEN /\ PrefixMatches /\ pc # "auth")
        => /\ openCmds = 1
           /\ authResult = "granted"
           /\ pc \in { "openSettle", "haltA", "autoclose" }
                => (gateOpen /\ servoAngle = OPEN_ANGLE)

C2_Witness ==
    /\ ~startOpen /\ scanned /\ uid.size = UID_LEN /\ PrefixMatches
    /\ pc = "autoclose" /\ gateOpen /\ openCmds = 1

\* C3: when the gate is Closed and the credential poll yields an identifier
\* that differs from the authorized one, the gate stays Closed and no
\* actuator command, open or close, is issued in that cycle.
C3_UnauthorizedScanKeepsClosed ==
    (~startOpen /\ scanned /\ ~PrefixMatches)
        => (~gateOpen /\ openCmds = 0 /\ closeCmds = 0 /\ servoAngle = CLOSED_ANGLE)

C3_Witness ==
    /\ ~startOpen /\ scanned /\ ~PrefixMatches
    /\ authResult = "denied" /\ pc = "cycleDelay" /\ ~gateOpen

\* C4: a scanned credential whose length is not the fixed 4 bytes is never
\* accepted: no grant and no open command in the cycle that read it.
C4_LengthChecked ==
    (scanned /\ uid.size # UID_LEN) => (authResult # "granted" /\ openCmds = 0)

\* C5: for every 4-byte credential isAuthorized returns true exactly when all
\* four bytes equal the configured entry, and the call leaves the gate state
\* and the actuator as they were.
C5_ExactMatchOnly ==
    authResult # "none"
        => /\ (authResult = "granted") <=> (card = authorizedUID)
           /\ gateOpen = startOpen
           /\ servoAngle = (IF startOpen THEN OPEN_ANGLE ELSE CLOSED_ANGLE)
           /\ openCmds = 0 /\ closeCmds = 0

C5_Witness ==
    /\ authResult = "denied"
    /\ Cardinality({ i \in 1..UID_LEN : card[i] # authorizedUID[i] }) = 1
    /\ card[UID_LEN] = authorizedUID[UID_LEN] + 1

\* C6: with the gate Open, a valid sample at or below the close threshold
\* starts the close settle wait; the wait always runs to completion, its
\* end issues exactly one close command after the full settle delay and
\* leaves the gate Closed.
C6_NearSampleCloses ==
    /\ []((ValidSample /\ SampleNear)
            => \/ pc = "closeSettle" /\ gateOpen /\ closeCmds = 0
               \/ pc \in { "display", "cycleDelay", "occupancy" }
                    /\ ~gateOpen /\ closeCmds = 1 /\ servoAngle = CLOSED_ANGLE)
    /\ [][(pc = "closeSettle" /\ pc' # pc)
            => /\ pc' = "display"
               /\ ~gateOpen'
               /\ closeCmds' = closeCmds + 1
               /\ servoAngle' = CLOSED_ANGLE
               /\ waited' = waited + CLOSE_SETTLE_MS]_vars
    /\ (pc = "closeSettle") ~> (~gateOpen /\ closeCmds = 1)

C6_Witness ==
    /\ ValidSample /\ echo = 588 /\ startOpen
    /\ pc = "display" /\ ~gateOpen /\ closeCmds = 1 /\ waited = CLOSE_SETTLE_MS

\* C7: with the gate Open, a valid sample strictly above the close threshold
\* leaves the gate Open and issues no close command, in every such cycle.
C7_FarSampleKeepsOpen ==
    (ValidSample /\ ~SampleNear)
        => (gateOpen /\ servoAngle = OPEN_ANGLE /\ pc # "closeSettle" /\ closeCmds = 0)

C7_Witness ==
    /\ ValidSample /\ echo = 1176 /\ startOpen /\ sinceOpen = MaxElapsed
    /\ pc = "cycleDelay" /\ gateOpen

\* C8: at every control-cycle boundary the last commanded actuator position
\* is determined by the gate state: Closed is 90 degrees, Open is 0 degrees.
C8_AngleFollowsState ==
    pc = "occupancy" => servoAngle = (IF gateOpen THEN OPEN_ANGLE ELSE CLOSED_ANGLE)

C8_Witness ==
    pc = "occupancy" /\ ~gateOpen /\ closeCmds = 1 /\ servoAngle = CLOSED_ANGLE

\* C9: from the open command of an authorized scan until the open settle
\* delay has fully elapsed the sketch is inside that delay: no range sample
\* has been taken since the open command, and nothing that happens in the
\* window (a tag entering or leaving the field) changes the UID buffer, the
\* authorization outcome, the gate state or the actuator commands.
C9_OpenSettleWindow ==
    /\ []((gateOpen /\ sinceOpen >= 0 /\ sinceOpen < OPEN_SETTLE_MS)
            => (pc = "openSettle" /\ ~sampled /\ closeCmds = 0))
    /\ [][(pc = "openSettle")
            => /\ UNCHANGED << uid, scanned, authResult, sampled, echo, distance >>
               /\ UNCHANGED << gateOpen, servoAngle, openCmds, closeCmds >>
               /\ pc' # pc => sinceOpen' = OPEN_SETTLE_MS]_vars

C9_Witness ==
    /\ pc = "openSettle" /\ sinceOpen = 0
    /\ card # NoCard /\ cardState = "idle"

\* C10: during the close settle wait the gate state is still Open and the
\* actuator still at the open angle; no scan presented in the wait is read
\* or decided, no range sample is taken, and the only change of the gate is
\* the close command at the end of the wait.
C10_CloseSettleWindow ==
    /\ [](pc = "closeSettle" => (gateOpen /\ servoAngle = OPEN_ANGLE /\ closeCmds = 0))
    /\ [][(pc = "closeSettle")
            => /\ UNCHANGED << uid, scanned, authResult, sampled, echo, distance, openCmds >>
               /\ pc' = pc => UNCHANGED << gateOpen, servoAngle, closeCmds >>]_vars

C10_Witness ==
    /\ pc = "closeSettle" /\ gateOpen
    /\ card # NoCard /\ cardState = "idle"

\* C11: a credential scan read while the gate is already Open has no
\* state-changing effect: through the credential step of that cycle the gate
\* stays Open, no close command is issued, and the scan adds no delay before
\* the range sample that can next close the gate.
C11_ScanWhileOpenNoEffect ==
    (startOpen /\ scanned /\ pc \in { "auth", "openSettle", "haltA", "autoclose" })
        => (gateOpen /\ closeCmds = 0 /\ pc # "openSettle" /\ waited = 0)

\* C12: starting Closed, the inputs [authorized scan, valid distance 50 cm,
\* valid distance 8 cm] give the gate states Closed, Open, Open, Closed: the
\* scan opens the gate with one open command, the 50 cm sample leaves it
\* Open with no command, and the 8 cm sample closes it with one close
\* command.
C12_EndToEndTrace ==
    trace # OffScript
        => /\ Len(trace) = 0 => (pc \in { "rfid", "auth" } => ~gateOpen)
           /\ Len(trace) >= 1 => (trace[1].open /\ trace[1].cmd = "open")
           /\ Len(trace) >= 2 => (trace[2].open /\ trace[2].cmd = "none")
           /\ Len(trace) = 2 => gateOpen
           /\ Len(trace) >= 3
                => (~trace[3].open /\ trace[3].cmd = "close"
                      /\ ~gateOpen /\ servoAngle = CLOSED_ANGLE)

C12_Witness ==
    /\ trace # OffScript /\ Len(trace) = 3 /\ pc = "display"
    /\ trace[1].uid = authorizedUID /\ trace[2].echo = 2941 /\ trace[3].echo = 471
    /\ ~gateOpen

\* C13: if display initialization fails the sketch halts for good: it stays
\* halted, no control cycle runs, no credential is read or evaluated, the
\* gate is never commanded open and the actuator stays at the closed angle
\* commanded earlier in setup().
C13_DisplayFailureHalts ==
    /\ [](pc = "halted"
            => /\ ~gateOpen /\ servoAngle = CLOSED_ANGLE /\ openCmds = 0 /\ closeCmds = 0
               /\ ~scanned /\ authResult = "none" /\ uid.size = 0 /\ ~sampled)
    /\ [][pc = "halted"
            => /\ pc' = "halted"
               /\ UNCHANGED << gateVars, spotVars, rfidVars, rangeVars >>]_vars

C13_Witness ==
    pc = "halted" /\ card = authorizedUID /\ servoAngle = CLOSED_ANGLE

\* The sketch is inside loop(), past the occupancy step of the current cycle.
PastOccupancy ==
    pc \in { "rfid", "auth", "openSettle", "haltA", "autoclose", "closeSettle",
             "display", "cycleDelay" }

\* C14: after the occupancy step of every cycle each spot flag is true
\* exactly when that cycle's raw reading is below the spot's threshold
\* (500 / 270 / 400) and the free-spot count is the number of true flags,
\* whatever it was before; the count is in 0..totalSpots at all times.
C14_CountMatchesFlags ==
    /\ availableSpots \in 0..totalSpots
    /\ PastOccupancy
         => /\ spot1Free = (fsr1 < 500)
            /\ spot2Free = (fsr2 < 270)
            /\ spot3Free = (fsr3 < 400)
            /\ availableSpots
                 = Cardinality({ f \in { << 1, spot1Free >>, << 2, spot2Free >>,
                                         << 3, spot3Free >> } : f[2] })

C14_Witness ==
    /\ pc = "rfid" /\ startOpen
    /\ spot1Free /\ ~spot2Free /\ spot3Free /\ availableSpots = 2

\* C15: in each cycle the credential is polled and the authorization decided
\* before any range sampling; the range is sampled in a cycle exactly when
\* the gate is Open after that cycle's credential step; the range is never
\* sampled and no close command is ever issued while the gate is Closed.
C15_CredentialBeforeRange ==
    /\ [](pc \in { "rfid", "auth", "openSettle", "haltA", "autoclose" }
            => (~sampled /\ closeCmds = 0))
    /\ [](pc \in { "closeSettle", "display", "cycleDelay" }
            => (sampled <=> (startOpen \/ openCmds > 0)))
    /\ [][(sampled' /\ ~sampled)
            => (gateOpen /\ pc = "autoclose" /\ (scanned => authResult # "none"))]_vars
    /\ [][(closeCmds' > closeCmds) => (gateOpen /\ sampled)]_vars

C15_Witness ==
    /\ pc = "display" /\ ~startOpen /\ scanned /\ authResult = "denied"
    /\ ~sampled /\ ~gateOpen

\* C16: gate control and occupancy monitoring are independent: no step other
\* than the occupancy step changes the free-spot count, the readings or the
\* flags; the occupancy step changes neither the gate state nor the actuator
\* position; and the decisions do not look at the count: with no free spot
\* an authorized scan still opens the gate and a near sample still closes it.
C16_GateIndependentOfOccupancy ==
    /\ [][pc # "occupancy" => UNCHANGED spotVars]_vars
    /\ [][pc = "occupancy" => UNCHANGED << gateOpen, servoAngle >>]_vars
    /\ []((availableSpots = 0 /\ scanned /\ PrefixMatches
             /\ pc \in { "openSettle", "haltA", "autoclose" })
            => (gateOpen /\ servoAngle = OPEN_ANGLE /\ openCmds = 1))
    /\ []((availableSpots = 0 /\ sampled /\ distance <= CLOSE_THRESHOLD /\ pc = "display")
            => (~gateOpen /\ closeCmds = 1))

C16_Witness ==
    /\ availableSpots = 0 /\ ~startOpen /\ scanned /\ PrefixMatches
    /\ pc = "autoclose" /\ gateOpen /\ openCmds = 1

\* C17: the gate state changes only in two ways: Closed to Open in a cycle
\* whose credential poll read an identifier that isAuthorized accepts (its
\* first four bytes are the configured entry), and Open to Closed in a cycle
\* whose distance sample was at or below the close threshold.  Hence the
\* gate is Open only after such a scan since it was last Closed.
C17_OnlyScanOpensOnlyRangeCloses ==
    /\ [][(~gateOpen /\ gateOpen')
            => (pc = "auth" /\ scanned /\ PrefixMatches /\ openCmds' = openCmds + 1)]_vars
    /\ [][(gateOpen /\ ~gateOpen')
            => (pc = "closeSettle" /\ sampled /\ distance <= CLOSE_THRESHOLD
                  /\ closeCmds' = closeCmds + 1)]_vars
    /\ [](gateOpen => sinceOpen >= 0)
    /\ []((gateOpen /\ ~startOpen) => (scanned /\ PrefixMatches /\ authResult = "granted"))

C17_Witness ==
    /\ pc = "haltA" /\ gateOpen /\ ~startOpen
    /\ scanned /\ PrefixMatches /\ uid.size = 7 /\ sinceOpen = OPEN_SETTLE_MS

\* C18: the cycle in which a scan is granted samples the range right after
\* the 2000 ms open settle delay; every close command comes at least
\* 2000 + 2500 ms after the last open command; and one cycle that began
\* Closed can issue the open and the close command and end Closed.
C18_SameCycleSample ==
    /\ [](authResult = "granted"
            => /\ pc \in { "closeSettle", "display", "cycleDelay" } => sampled
               /\ pc = "closeSettle" => (waited = OPEN_SETTLE_MS /\ sinceOpen = 2000))
    /\ [][(closeCmds' > closeCmds) => sinceOpen' >= 2000 + 2500]_vars
    /\ []((closeCmds = 1 /\ openCmds = 1) => (waited = 4500 /\ ~gateOpen))

C18_Witness ==
    /\ pc = "display" /\ ~startOpen /\ authResult = "granted"
    /\ openCmds = 1 /\ closeCmds = 1 /\ ~gateOpen /\ servoAngle = CLOSED_ANGLE
    /\ waited = 4500

====
